---- MODULE Spec2Model ----
(***************************************************************************)
(* A model of the blueye-ts client.                                        *)
(*                                                                         *)
(*   SpecQueue    AsyncQueue on its own, with tasks of every outcome       *)
(*   Spec         the queue-based BlueyeClient as constructed, with or     *)
(*                without autoConnect: sendRequest, sendControl, the RPC   *)
(*                transport and the timers                                 *)
(*   LiveSpec     Spec with the fairness of the event loop                 *)
(*   SpecSession  connect/disconnect with re-entrant state listeners       *)
(*   SpecDirect   the client whose sendRequest does not use the queue      *)
(*   SpecTelemetry  getTelemetry, on every response of sendRequest         *)
(*   SpecSub      on() and the "message" handler of the sub socket, next   *)
(*                to requests sent and queued                              *)
(*   SpecBinlog   parse on every blob of up to MaxFrames frames            *)
(*   SpecFixTimes fixMessageTimes on every sequence of up to MaxRecords    *)
(*                messages                                                 *)
(*                                                                         *)
(* JavaScript runs one macrotask (a call from the application, a timer, a  *)
(* transport event) to completion and then drains the microtasks it has    *)
(* scheduled.  The synchronous call stack of connect/disconnect is the     *)
(* variable stack; timers and transport events are enabled only when the   *)
(* stack is empty and no promise reaction is runnable.                     *)
(***************************************************************************)
EXTENDS Integers, Sequences, FiniteSets, TLC

(***************************************************************************)
(* Bounds of the model                                                     *)
(***************************************************************************)
MaxTasks == 7
MaxCalls == 3
MaxCtrl == 1
MaxTrace == 5
MaxDepth == 3
MaxTelCalls == 2
MaxObservers == 3
MaxMsgs == 2
MaxFrames == 3
MaxRecords == 3

VARIABLES
    tasks,      \* AsyncQueue: the chain of run promises, in submission order
    startLog,   \* AsyncQueue: the tasks whose fn was called, in call order
    calls,      \* sendRequest calls, in submission order
    listeners,  \* once("message") listeners registered on the rpc socket
    frames,     \* request frames handed to rpc.send, in order
    timers,     \* setTimeout callbacks not yet run, in creation order
    pubSent,    \* frames handed to pub.send, in order
    ctrlCalls,  \* sendControl calls, in call order
    state,      \* BlueyeClient.state
    attached,   \* which of the three sockets are connected
    stack,      \* the synchronous call stack of connect()/disconnect()
    trace,      \* the latest state events and transport attach/detach, in order
    telCalls,   \* getTelemetry calls that have settled, in order
    observers,  \* the events of the observers registered with on(), in order
    subMsgs,    \* the keys of the messages received on sub, in arrival order
    invoked,    \* the observer invocations, in order
    binlog,     \* binlog: the blob given to parse, and the fixTimes argument
    parsed,     \* binlog: what parse returned or how it failed
    unfixed,    \* binlog: the messages given to fixMessageTimes
    fixed       \* binlog: the messages fixMessageTimes returned

queueVars == <<tasks, startLog>>
rpcVars == <<calls, listeners, frames, timers, pubSent, ctrlCalls>>
sessionVars == <<state, attached, stack, trace>>
subVars == <<observers, subMsgs, invoked>>
binVars == <<binlog, parsed, unfixed, fixed>>
otherVars == <<telCalls, subVars, binVars>>
vars == <<tasks, startLog, calls, listeners, frames, timers, pubSent, ctrlCalls,
          state, attached, stack, trace, telCalls, observers, subMsgs, invoked,
          binlog, parsed, unfixed, fixed>>


Max(a, b) == IF a >= b THEN a ELSE b

Range(s) == { s[i] : i \in DOMAIN s }

(***************************************************************************)
(* AsyncQueue (async-queue.ts)                                             *)
(*                                                                         *)
(* tasks[i] is the promise `run` of the i-th enqueue call:                 *)
(*   st       "waiting"   lastPromise.then has not yet called back         *)
(*            "running"   fn was called and its promise is pending         *)
(*            "fulfilled" / "rejected"                                     *)
(*   started  fn was called                                                *)
(*   err      the task whose error a rejected run carries                  *)
(*   val      the value a fulfilled run carries                            *)
(* lastPromise after the i-th enqueue is run.finally(() => {}), which      *)
(* settles exactly as run does.                                            *)
(***************************************************************************)
NoValue == "none"

Settled == {"fulfilled", "rejected"}

LastPromise_NeverUpdated(q, i) == [st |-> "fulfilled", err |-> 0]

\* lastPromise as seen by the i-th enqueue: Promise.resolve() for the first
\* call, the previous run passed through finally for the others.
LastPromise(q, i) ==
    IF i = 1 THEN [st |-> "fulfilled", err |-> 0]
    ELSE [st |-> q[i - 1].st, err |-> q[i - 1].err]

\* enqueue: a new run promise chained on lastPromise.
enqueue(q) ==
    Append(q, [st |-> "waiting", started |-> FALSE, err |-> 0, val |-> NoValue])

PrevSettled_NoWait(q, i) == TRUE

\* The reaction `lastPromise.then(() => fn())` of task i can run.
PrevSettled(q, i) == LastPromise(q, i).st \in Settled

ThenReady(q, i) ==
    /\ i \in DOMAIN q
    /\ q[i].st = "waiting"
    /\ PrevSettled(q, i)

\* then(onFulfilled) with no onRejected: fn is called only if lastPromise is
\* fulfilled; a rejected lastPromise rejects run with the same error and fn is
\* not called.  threw: fn() throws before returning a promise.
ThenCallback(q, i, threw) ==
    IF LastPromise(q, i).st = "rejected"
    THEN [q EXCEPT ![i].st = "rejected", ![i].err = LastPromise(q, i).err]
    ELSE IF threw
    THEN [q EXCEPT ![i] = [st |-> "rejected", started |-> TRUE, err |-> i, val |-> NoValue]]
    ELSE [q EXCEPT ![i].st = "running", ![i].started = TRUE]

\* the promise returned by fn settles, and run with it
SettleRun(q, i, ok, v) ==
    IF ok THEN [q EXCEPT ![i].st = "fulfilled", ![i].val = v]
    ELSE [q EXCEPT ![i].st = "rejected", ![i].err = i]

\* a promise reaction of the queue is runnable (microtasks not drained)
MicrotaskPending == \E i \in DOMAIN tasks : ThenReady(tasks, i)

QEnqueue ==
    /\ Len(tasks) < MaxTasks
    /\ tasks' = enqueue(tasks)
    /\ UNCHANGED <<startLog, rpcVars, sessionVars, otherVars>>

QThen(i) ==
    /\ ThenReady(tasks, i)
    /\ \E threw \in BOOLEAN :
         /\ tasks' = ThenCallback(tasks, i, threw)
         /\ startLog' = IF tasks'[i].started THEN Append(startLog, i) ELSE startLog
    /\ UNCHANGED <<rpcVars, sessionVars, otherVars>>

QSettle(i) ==
    /\ i \in DOMAIN tasks
    /\ tasks[i].st = "running"
    /\ \E ok \in BOOLEAN : tasks' = SettleRun(tasks, i, ok, i)
    /\ UNCHANGED <<startLog, rpcVars, sessionVars, otherVars>>

(***************************************************************************)
(* Session state machine (BlueyeClient.updateState, connect, disconnect)   *)
(*                                                                         *)
(* connect() and disconnect() run synchronously, and so do the listeners   *)
(* of the state events that updateState emits: a listener may call         *)
(* connect() or disconnect() again, or throw.  stack holds the calls in    *)
(* progress, innermost last; a frame is [op, pc] with pc one of            *)
(*   "entry"    the call has been made, the guards not yet evaluated       *)
(*   "emit_connecting", "emit_connected", "emit_disconnected"              *)
(*              updateState has set the state and is inside emit: the      *)
(*              listeners of that event are running                        *)
(*   "attach"   emit("connecting") has returned                            *)
(***************************************************************************)
Detached == [sub |-> FALSE, rpc |-> FALSE, pub |-> FALSE]
Attached == [sub |-> TRUE, rpc |-> TRUE, pub |-> TRUE]

Top == stack[Len(stack)]
Pop(s) == SubSeq(s, 1, Len(s) - 1)
SetTopPc(s, pc) == [s EXCEPT ![Len(s)].pc = pc]

InListener ==
    /\ stack # <<>>
    /\ Top.pc \in {"emit_connecting", "emit_connected", "emit_disconnected"}

\* the last MaxTrace entries of the trace, with the entries es added
Noted(es) ==
    LET t == trace \o es
    IN  SubSeq(t, Max(1, Len(t) - MaxTrace + 1), Len(t))

Push(op) == stack' = Append(stack, [op |-> op, pc |-> "entry"])

\* the application calls connect() / disconnect() from the event loop
CallConnect ==
    /\ stack = <<>>
    /\ Push("connect")
    /\ UNCHANGED <<state, attached, trace, queueVars, rpcVars, otherVars>>

CallDisconnect ==
    /\ stack = <<>>
    /\ Push("disconnect")
    /\ UNCHANGED <<state, attached, trace, queueVars, rpcVars, otherVars>>

\* a listener of a state event calls connect() / disconnect()
ListenerCallsConnect ==
    /\ InListener
    /\ Len(stack) < MaxDepth
    /\ Push("connect")
    /\ UNCHANGED <<state, attached, trace, queueVars, rpcVars, otherVars>>

ListenerCallsDisconnect ==
    /\ InListener
    /\ Len(stack) < MaxDepth
    /\ Push("disconnect")
    /\ UNCHANGED <<state, attached, trace, queueVars, rpcVars, otherVars>>

\* updateState(newState): the state is set, then the event is emitted; the
\* frame stays inside emit while the listeners run
updateState(newState) ==
    /\ state' = newState
    /\ trace' = Noted(<<newState>>)
    /\ stack' = SetTopPc(stack, "emit_" \o newState)

ConnectRefused_OnlyConnected == state = "connected"

\* connect(): the two early returns
ConnectRefused == state = "connected" \/ state = "connecting"

DisconnectRefused_OnlyDisconnected == state = "disconnected"

\* disconnect(): the two early returns
DisconnectRefused == state = "disconnected" \/ state = "connecting"

\* connect(): already connected or connecting: warn and return
ConnectNoop ==
    /\ stack # <<>>
    /\ Top = [op |-> "connect", pc |-> "entry"]
    /\ ConnectRefused
    /\ stack' = Pop(stack)
    /\ UNCHANGED <<state, attached, trace, queueVars, rpcVars, otherVars>>

\* connect(): updateState("connecting")
ConnectBegin ==
    /\ stack # <<>>
    /\ Top = [op |-> "connect", pc |-> "entry"]
    /\ ~ConnectRefused
    /\ updateState("connecting")
    /\ UNCHANGED <<attached, queueVars, rpcVars, otherVars>>

\* every listener of the event has returned: emit and updateState return
ListenerReturns ==
    /\ InListener
    /\ stack' = IF Top.pc = "emit_connecting"
                THEN SetTopPc(stack, "attach")
                ELSE Pop(stack)
    /\ UNCHANGED <<state, attached, trace, queueVars, rpcVars, otherVars>>

\* a listener throws: emit, updateState and the connect()/disconnect() that
\* called it are left by the exception.  The caller is the event loop or a
\* listener of an outer emit, which goes on (or throws in its turn).
ListenerThrows ==
    /\ InListener
    /\ stack' = Pop(stack)
    /\ UNCHANGED <<state, attached, trace, queueVars, rpcVars, otherVars>>

\* connect(): sub.subscribe, sub.connect, rpc.connect, pub.connect, then
\* updateState("connected")
ConnectAttach ==
    /\ stack # <<>>
    /\ Top = [op |-> "connect", pc |-> "attach"]
    /\ attached' = Attached
    /\ state' = "connected"
    /\ trace' = Noted(<<"attach", "connected">>)
    /\ stack' = SetTopPc(stack, "emit_connected")
    /\ UNCHANGED <<queueVars, rpcVars, otherVars>>

\* connect(): one of the socket calls throws; the sockets before it are
\* connected and connect() is left with the state still "connecting"
ConnectAttachThrows ==
    /\ stack # <<>>
    /\ Top = [op |-> "connect", pc |-> "attach"]
    /\ \E failing \in {"sub", "rpc", "pub"} :
         attached' = [sub |-> attached.sub \/ failing \in {"rpc", "pub"},
                      rpc |-> attached.rpc \/ failing = "pub",
                      pub |-> attached.pub]
    /\ stack' = Pop(stack)
    /\ UNCHANGED <<state, trace, queueVars, rpcVars, otherVars>>

\* disconnect(): already disconnected, or connecting: warn and return
DisconnectNoop ==
    /\ stack # <<>>
    /\ Top = [op |-> "disconnect", pc |-> "entry"]
    /\ DisconnectRefused
    /\ stack' = Pop(stack)
    /\ UNCHANGED <<state, attached, trace, queueVars, rpcVars, otherVars>>

DisconnectDetach_EmitFirst ==
    /\ stack # <<>>
    /\ Top = [op |-> "disconnect", pc |-> "entry"]
    /\ ~(state = "disconnected" \/ state = "connecting")
    /\ attached' = Detached
    /\ state' = "disconnected"
    /\ trace' = Noted(<<"disconnected", "detach">>)
    /\ stack' = SetTopPc(stack, "emit_disconnected")
    /\ UNCHANGED <<queueVars, rpcVars, otherVars>>

\* disconnect(): sub.unsubscribe, the three disconnect calls, then
\* updateState("disconnected")
DisconnectDetach ==
    /\ stack # <<>>
    /\ Top = [op |-> "disconnect", pc |-> "entry"]
    /\ ~DisconnectRefused
    /\ attached' = Detached
    /\ state' = "disconnected"
    /\ trace' = Noted(<<"detach", "disconnected">>)
    /\ stack' = SetTopPc(stack, "emit_disconnected")
    /\ UNCHANGED <<queueVars, rpcVars, otherVars>>

(***************************************************************************)
(* Message registry (blueye.protocol), as far as the client looks at it    *)
(*                                                                         *)
(* A key is the name of a message type.  The client asks two things of a   *)
(* key: whether it is a property of blueye.protocol, and how it ends.      *)
(***************************************************************************)
Protocol ==
    {"GetBatteryReq", "GetBatteryRep", "GetTelemetryReq", "GetTelemetryRep",
     "BatteryTel", "DepthTel", "LightsCtrl", "Lights"}

\* the suffix of the key among those the client tests with endsWith
SuffixOf(key) ==
    CASE key \in {"GetBatteryReq", "GetTelemetryReq", "NoSuchReq"} -> "Req"
      [] key \in {"GetBatteryRep", "GetTelemetryRep", "NoSuchRep"} -> "Rep"
      [] key \in {"BatteryTel", "DepthTel", "NoSuchTel"} -> "Tel"
      [] key \in {"LightsCtrl", "NoSuchCtrl"} -> "Ctrl"
      [] OTHER -> ""

isInProtocol(key) == key \in Protocol

endsWith(key, suffix) == SuffixOf(key) = suffix

\* `blueye.protocol.${key}`, as its dot-separated components
Topic(key) == <<"blueye", "protocol", key>>

\* topic.toString().split(".").at(-1)
LastComponent(topic) == topic[Len(topic)]

(***************************************************************************)
(* The queue-based client: sendRequest, sendControl                        *)
(*                                                                         *)
(* calls[c]   one sendRequest call:                                        *)
(*   key      the request key given                                        *)
(*   at       BlueyeClient.state when the call was made                    *)
(*   outcome  "pending", or how the returned promise settled:              *)
(*            "invalid" (unknown protocol), "timeout", "null" (Empty),     *)
(*            "value" (decoded reply), "unexpected" (unknown response)     *)
(*   task     the queue task of the call, 0 if none was enqueued           *)
(*   by       the frame whose reply settled the call, 0 if none            *)
(* frames[f]  one rpc.send:                                                *)
(*   task     the queue task that sent it                                  *)
(*   replied  the reply to it has arrived                                  *)
(* listeners  the tasks whose once("message") listener is registered       *)
(* timers     the calls whose timeout callback has not run; every timer    *)
(*            has the delay this.timeout, so they run in creation order    *)
(***************************************************************************)
RequestKeys == {"GetBatteryReq", "GetBatteryRep", "NoSuchReq"}
ControlKeys == {"LightsCtrl", "GetBatteryReq", "NoSuchCtrl"}
ReplyKeys == {"Empty", "GetBatteryRep", "BatteryTel", "NoSuchRep"}

ValidRequest_SuffixOnly(key) == endsWith(key, "Req")

\* sendRequest: the check of the request key
ValidRequest(key) == isInProtocol(key) /\ endsWith(key, "Req")

\* sendControl: the check of the control key
ValidControl(key) == isInProtocol(key) /\ endsWith(key, "Ctrl")

ReplyOutcome_EmptyUnexpected(key) ==
    IF ~isInProtocol(key) \/ ~endsWith(key, "Rep") THEN "unexpected" ELSE "value"

\* sendRequest, after the race: what the call makes of the reply key
ReplyOutcome(key) ==
    IF key = "Empty" THEN "null"
    ELSE IF ~isInProtocol(key) \/ ~endsWith(key, "Rep") THEN "unexpected"
    ELSE "value"

CallOfTask(t) == CHOOSE c \in DOMAIN calls : calls[c].task = t

Race_LastWins(call, outcome, f) == [call EXCEPT !.outcome = outcome, !.by = f]

\* Promise.race: the first of the two promises to settle settles the call
Race(call, outcome, f) ==
    IF call.outcome = "pending"
    THEN [call EXCEPT !.outcome = outcome, !.by = f]
    ELSE call

Outstanding == { f \in DOMAIN frames : ~frames[f].replied }

\* nothing runs on the stack and the microtasks are drained: the event loop
\* can run a timer or a transport event
Idle == stack = <<>> /\ ~MicrotaskPending

SendRequest_NoTimer(key) ==
    /\ stack = <<>>
    /\ Len(calls) < MaxCalls
    /\ IF ValidRequest(key)
       THEN /\ tasks' = enqueue(tasks)
            /\ calls' = Append(calls, [key |-> key, at |-> state, outcome |-> "pending",
                                       task |-> Len(tasks) + 1, by |-> 0])
            /\ UNCHANGED timers
       ELSE /\ calls' = Append(calls, [key |-> key, at |-> state, outcome |-> "invalid",
                                       task |-> 0, by |-> 0])
            /\ UNCHANGED <<tasks, timers>>
    /\ UNCHANGED <<startLog, listeners, frames, pubSent, ctrlCalls, sessionVars, otherVars>>

\* sendRequest(key), up to the await: an invalid key rejects the call; a
\* valid one starts the timeout and enqueues the request task
SendRequest(key) ==
    /\ stack = <<>>
    /\ Len(calls) < MaxCalls
    /\ IF ValidRequest(key)
       THEN /\ timers' = Append(timers, Len(calls) + 1)
            /\ tasks' = enqueue(tasks)
            /\ calls' = Append(calls, [key |-> key, at |-> state, outcome |-> "pending",
                                       task |-> Len(tasks) + 1, by |-> 0])
       ELSE /\ calls' = Append(calls, [key |-> key, at |-> state, outcome |-> "invalid",
                                       task |-> 0, by |-> 0])
            /\ UNCHANGED <<tasks, timers>>
    /\ UNCHANGED <<startLog, listeners, frames, pubSent, ctrlCalls, sessionVars, otherVars>>

RunRequest_SkipTimedOut(t) ==
    /\ stack = <<>>
    /\ ThenReady(tasks, t)
    /\ tasks' = ThenCallback(tasks, t, FALSE)
    /\ IF tasks'[t].started /\ calls[CallOfTask(t)].outcome = "pending"
       THEN /\ listeners' = Append(listeners, t)
            /\ frames' = Append(frames, [task |-> t, replied |-> FALSE])
            /\ startLog' = Append(startLog, t)
       ELSE UNCHANGED <<listeners, frames, startLog>>
    /\ UNCHANGED <<calls, timers, pubSent, ctrlCalls, sessionVars, otherVars>>

\* the queue calls the request task of a call: it registers the once
\* listener and sends the frame
RunRequest(t) ==
    /\ stack = <<>>
    /\ ThenReady(tasks, t)
    /\ tasks' = ThenCallback(tasks, t, FALSE)
    /\ IF tasks'[t].started
       THEN /\ listeners' = Append(listeners, t)
            /\ frames' = Append(frames, [task |-> t, replied |-> FALSE])
            /\ startLog' = Append(startLog, t)
       ELSE UNCHANGED <<listeners, frames, startLog>>
    /\ UNCHANGED <<calls, timers, pubSent, ctrlCalls, sessionVars, otherVars>>

\* the reply to the oldest outstanding frame arrives with the topic of key
\* (a connected rpc socket is what receives): the socket emits "message",
\* every once listener is called and removed, each resolves its task, and
\* the race of the task's call settles
Reply(key) ==
    /\ Idle
    /\ attached.rpc
    /\ Outstanding # {}
    /\ LET f == CHOOSE g \in Outstanding : \A h \in Outstanding : g <= h
           replyKey == LastComponent(Topic(key))
           woken == Range(listeners)
           wokenCalls == { CallOfTask(t) : t \in woken }
       IN  /\ tasks' = [t \in DOMAIN tasks |->
                          IF t \in woken
                          THEN SettleRun(tasks, t, TRUE, replyKey)[t]
                          ELSE tasks[t]]
           /\ calls' = [c \in DOMAIN calls |->
                          IF c \in wokenCalls
                          THEN Race(calls[c], ReplyOutcome(replyKey), f)
                          ELSE calls[c]]
           /\ frames' = [frames EXCEPT ![f].replied = TRUE]
           /\ listeners' = <<>>
    /\ UNCHANGED <<startLog, timers, pubSent, ctrlCalls, sessionVars, otherVars>>

TimerFire_AnyOrder ==
    /\ Idle
    /\ \E i \in DOMAIN timers :
         /\ timers' = [j \in 1..(Len(timers) - 1) |->
                         IF j < i THEN timers[j] ELSE timers[j + 1]]
         /\ calls' = [calls EXCEPT ![timers[i]] = Race(calls[timers[i]], "timeout", 0)]
    /\ UNCHANGED <<tasks, startLog, listeners, frames, pubSent, ctrlCalls, sessionVars, otherVars>>

TimerFire_SettlesTask ==
    /\ Idle
    /\ timers # <<>>
    /\ timers' = Tail(timers)
    /\ calls' = [calls EXCEPT ![Head(timers)] = Race(calls[Head(timers)], "timeout", 0)]
    /\ tasks' = IF tasks[calls[Head(timers)].task].st = "running"
                THEN SettleRun(tasks, calls[Head(timers)].task, TRUE, NoValue)
                ELSE tasks
    /\ UNCHANGED <<startLog, listeners, frames, pubSent, ctrlCalls, sessionVars, otherVars>>

\* the oldest timer runs: reject(new Error("[rpc] request timed out"))
TimerFire ==
    /\ Idle
    /\ timers # <<>>
    /\ timers' = Tail(timers)
    /\ calls' = [calls EXCEPT ![Head(timers)] = Race(calls[Head(timers)], "timeout", 0)]
    /\ UNCHANGED <<tasks, startLog, listeners, frames, pubSent, ctrlCalls, sessionVars, otherVars>>

\* a sendControl call as ctrlCalls keeps it: how it ended, and whether its
\* frame was sent with a request frame outstanding and a request task
\* waiting in the queue
ControlCall(key, outcome) ==
    [key |-> key, outcome |-> outcome,
     busy |-> /\ outcome = "sent"
              /\ Outstanding # {}
              /\ \E t \in DOMAIN tasks : tasks[t].st = "waiting"]

SendControl_ThroughQueue(key) ==
    /\ stack = <<>>
    /\ Len(ctrlCalls) < MaxCtrl
    /\ IF ValidControl(key)
       THEN /\ tasks' = enqueue(tasks)
            /\ ctrlCalls' = Append(ctrlCalls, ControlCall(key, "sent"))
       ELSE /\ ctrlCalls' = Append(ctrlCalls, ControlCall(key, "invalid"))
            /\ UNCHANGED tasks
    /\ UNCHANGED <<startLog, pubSent, calls, listeners, frames, timers,
                   sessionVars, otherVars>>

\* sendControl(key): an invalid key rejects the call; a valid one sends the
\* frame on the pub socket
SendControl(key) ==
    /\ stack = <<>>
    /\ Len(ctrlCalls) < MaxCtrl
    /\ IF ValidControl(key)
       THEN /\ pubSent' = Append(pubSent, [key |-> key, at |-> state])
            /\ ctrlCalls' = Append(ctrlCalls, ControlCall(key, "sent"))
       ELSE /\ ctrlCalls' = Append(ctrlCalls, ControlCall(key, "invalid"))
            /\ UNCHANGED pubSent
    /\ UNCHANGED <<queueVars, calls, listeners, frames, timers,
                   sessionVars, otherVars>>

InitQueue ==
    /\ tasks = <<>>
    /\ startLog = <<>>

InitRpc ==
    /\ calls = <<>>
    /\ listeners = <<>>
    /\ frames = <<>>
    /\ timers = <<>>
    /\ pubSent = <<>>
    /\ ctrlCalls = <<>>

InitSession ==
    /\ state = "disconnected"
    /\ attached = Detached
    /\ stack = <<>>
    /\ trace = <<>>

InitTelemetry == telCalls = <<>>

InitSub ==
    /\ observers = <<>>
    /\ subMsgs = <<>>
    /\ invoked = <<>>

\* nothing has been given to the binlog decoder
InitBin ==
    /\ binlog = [frames |-> <<>>, cut |-> 0, corruptAt |-> 0, endOk |-> TRUE,
                 fixTimes |-> TRUE]
    /\ parsed = [status |-> "none", messages |-> <<>>]
    /\ unfixed = <<>>
    /\ fixed = [done |-> FALSE, messages |-> <<>>]

InitOther == InitTelemetry /\ InitSub /\ InitBin

Init == InitQueue /\ InitRpc /\ InitSession /\ InitOther

NextQueue ==
    \/ QEnqueue
    \/ \E i \in 1..MaxTasks : QThen(i)
    \/ \E i \in 1..MaxTasks : QSettle(i)

SpecQueue == Init /\ [][NextQueue]_vars

NextSession ==
    \/ CallConnect
    \/ CallDisconnect
    \/ ConnectNoop
    \/ ConnectBegin
    \/ ConnectAttach
    \/ ConnectAttachThrows
    \/ DisconnectNoop
    \/ DisconnectDetach
    \/ ListenerReturns
    \/ ListenerCallsConnect
    \/ ListenerCallsDisconnect
    \/ ListenerThrows

\* the client as the constructor leaves it: with autoConnect the constructor
\* has called connect(), and no listener can have been registered before
InitClient ==
    /\ InitQueue
    /\ InitRpc
    /\ InitOther
    /\ stack = <<>>
    /\ \E autoConnect \in BOOLEAN :
         IF autoConnect
         THEN /\ state = "connected"
              /\ attached = Attached
              /\ trace = <<"connecting", "attach", "connected">>
         ELSE /\ state = "disconnected"
              /\ attached = Detached
              /\ trace = <<>>

Next ==
    \/ \E key \in RequestKeys : SendRequest(key)
    \/ \E t \in 1..MaxCalls : RunRequest(t)
    \/ \E key \in ReplyKeys : Reply(key)
    \/ TimerFire
    \/ \E key \in ControlKeys : SendControl(key)

Spec == InitClient /\ [][Next]_vars

\* The event loop drains the microtasks and runs every timer that is due.
\* No reply is ever owed by the remote side.
LiveSpec ==
    /\ Spec
    /\ WF_vars(\E t \in 1..MaxCalls : RunRequest(t))
    /\ WF_vars(TimerFire)

SpecSession == Init /\ [][NextSession]_vars

(***************************************************************************)
(* getTelemetry                                                            *)
(*                                                                         *)
(* getTelemetry(type) awaits sendRequest("GetTelemetryReq", ...) and works *)
(* on what that call gives back.  A response is                            *)
(*   kind     how the sendRequest call settled: "timeout", "unexpected",   *)
(*            "null" (Empty) or "value" (the decoded reply)                *)
(*   payload  the payload field of the decoded reply: present or not, and  *)
(*            its typeUrl as dot-separated components                      *)
(* telCalls[i] is one getTelemetry call: the type asked for, the response  *)
(* and the result: status "value" with the key of the decoder used, or     *)
(* status "error" with the error                                           *)
(***************************************************************************)
TelKeys == {"BatteryTel", "DepthTel"}

EnvelopeKeys == {"BatteryTel", "DepthTel", "GetBatteryRep", "NoSuchTel"}

NoPayload == [present |-> FALSE, typeUrl |-> <<>>]

TelResponses ==
    { [kind |-> k, payload |-> NoPayload] :
        k \in {"timeout", "unexpected", "null", "value"} }
    \cup { [kind |-> "value", payload |-> [present |-> TRUE, typeUrl |-> Topic(k)]] :
             k \in EnvelopeKeys }

TelError(e) == [status |-> "error", error |-> e, decodedAs |-> ""]

\* getTelemetry(type), from the response of sendRequest on: a rejection of
\* sendRequest is the rejection of getTelemetry; telemetrySchema.parse
\* throws on null and on a reply without payload; the typeUrl is cut to its
\* last component and must be a registry key ending in "Tel"; the value is
\* decoded with the decoder of that key
getTelemetry(type, response) ==
    IF response.kind \in {"timeout", "unexpected"} THEN TelError(response.kind)
    ELSE IF response.kind = "null" \/ ~response.payload.present THEN TelError("schema")
    ELSE LET typeUrl == LastComponent(response.payload.typeUrl)
         IN  IF ~isInProtocol(typeUrl) \/ ~endsWith(typeUrl, "Tel")
             THEN TelError("unknown telemetry typeUrl")
             ELSE [status |-> "value", error |-> "", decodedAs |-> typeUrl]

\* one getTelemetry call, from the call to the settling of its promise
GetTelemetry(type, response) ==
    /\ Len(telCalls) < MaxTelCalls
    /\ telCalls' = Append(telCalls, [type |-> type, response |-> response,
                                     result |-> getTelemetry(type, response)])
    /\ UNCHANGED <<queueVars, rpcVars, sessionVars, subVars, binVars>>

NextTelemetry ==
    \E type \in TelKeys, response \in TelResponses : GetTelemetry(type, response)

SpecTelemetry == Init /\ [][NextTelemetry]_vars

(***************************************************************************)
(* The telemetry subscriber: on() and the "message" handler of sub         *)
(*                                                                         *)
(* observers[i] is the event the i-th observer was registered for with     *)
(* on(): a telemetry key or a state event.  subMsgs[m] is the key of the   *)
(* topic of the m-th message that arrived on sub.  invoked holds one       *)
(* [msg, obs] for each call of an observer, in call order.  An observer    *)
(* is application code; here it returns.                                   *)
(***************************************************************************)
ObserverEvents == {"BatteryTel", "DepthTel", "connected"}

SubKeys == {"BatteryTel", "DepthTel", "GetBatteryRep", "NoSuchTel", "connected"}

\* client.on(event, observer)
On(event) ==
    /\ stack = <<>>
    /\ Len(observers) < MaxObservers
    /\ observers' = Append(observers, event)
    /\ UNCHANGED <<subMsgs, invoked, queueVars, rpcVars, sessionVars, telCalls, binVars>>

\* emit(event, ...): the observers of the event, in registration order
ListenersOf(event) ==
    SelectSeq([i \in 1..Len(observers) |-> i], LAMBDA i : observers[i] = event)

\* the calls emit(event) makes for the message m
Emit(event, m) ==
    [j \in 1..Len(ListenersOf(event)) |-> [msg |-> m, obs |-> ListenersOf(event)[j]]]

SubMessage_NoKeyCheck(k) ==
    /\ Idle
    /\ attached.sub
    /\ Len(subMsgs) < MaxMsgs
    /\ subMsgs' = Append(subMsgs, LastComponent(Topic(k)))
    /\ invoked' = invoked \o Emit(LastComponent(Topic(k)), Len(subMsgs) + 1)
    /\ UNCHANGED <<observers, queueVars, rpcVars, sessionVars, telCalls, binVars>>

\* a message with the topic of k arrives on the connected sub socket: the
\* handler cuts the topic to its key, drops the message unless the key is a
\* registry key ending in "Tel", and emits the key
SubMessage(k) ==
    /\ Idle
    /\ attached.sub
    /\ Len(subMsgs) < MaxMsgs
    /\ LET key == LastComponent(Topic(k))
       IN  /\ subMsgs' = Append(subMsgs, key)
           /\ invoked' = IF ~isInProtocol(key) \/ ~endsWith(key, "Tel")
                         THEN invoked
                         ELSE invoked \o Emit(key, Len(subMsgs) + 1)
    /\ UNCHANGED <<observers, queueVars, rpcVars, sessionVars, telCalls, binVars>>

\* the subscriber, next to requests that are sent and not yet answered
NextSub ==
    \/ \E event \in ObserverEvents : On(event)
    \/ \E k \in SubKeys : SubMessage(k)
    \/ SendRequest("GetBatteryReq")
    \/ \E t \in 1..MaxCalls : RunRequest(t)

SpecSub == InitClient /\ [][NextSub]_vars

(***************************************************************************)
(* The binlog decoder: parse, decompress, parseMessages, fixMessageTimes   *)
(*                                                                         *)
(* A blob is a gzip stream that the decoder reads in chunks:               *)
(*   frames     the frames of the decompressed data, in stream order; a    *)
(*              frame is a length prefix of one byte, which declares       *)
(*              length, and the bytes of an encoded BinlogRecord msg       *)
(*   cut        how many bytes of the last frame are missing at the end    *)
(*              of the decompressed data; the prefix is never missing      *)
(*   corruptAt  the chunk on which gunzip.push throws, 0 if on none; the   *)
(*              j-th chunk gives the bytes of the j-th frame               *)
(*   endOk      gunzip.push of the end-of-stream marker does not throw     *)
(*   fixTimes   the fixTimes argument of parse                             *)
(* A decoded BinlogRecord msg has clockMonotonic, unixTimestamp, payload   *)
(* (present or not, with its typeUrl) and inner, the payload field of the  *)
(* message that payload.value decodes to, and inner2, the payload field of *)
(* the message that the value of inner decodes to.                         *)
(***************************************************************************)
Envelope(key) == [present |-> TRUE, typeUrl |-> Topic(key)]

\* the clocks of the i-th record of the recording: the monotonic clock
\* ticks evenly, the wall clock drifts
StampAt(i) == <<50 + 50 * i, 1000 + 40 * (i - 1) + (IF i >= 3 THEN 30 ELSE 0)>>

Payloads ==
    {<<Envelope("BatteryTel"), NoPayload, NoPayload>>,
     <<Envelope("LightsCtrl"), NoPayload, NoPayload>>,
     <<Envelope("NoSuchTel"), NoPayload, NoPayload>>,
     <<NoPayload, NoPayload, NoPayload>>,
     <<Envelope("GetTelemetryRep"), Envelope("BatteryTel"), NoPayload>>,
     <<Envelope("GetTelemetryRep"), Envelope("NoSuchTel"), NoPayload>>,
     <<Envelope("GetTelemetryRep"), NoPayload, NoPayload>>,
     <<Envelope("GetTelemetryRep"), Envelope("GetTelemetryRep"), Envelope("BatteryTel")>>}

BinlogRecord(i, p) ==
    [clockMonotonic |-> StampAt(i)[1], unixTimestamp |-> StampAt(i)[2],
     payload |-> p[1], inner |-> p[2], inner2 |-> p[3]]

\* the number of bytes of the encoded record
EncodedLength(msg) == IF msg.payload.present THEN 3 ELSE 2

Frame(msg) == [length |-> EncodedLength(msg), msg |-> msg]

\* the frames of the records with the payloads ps, in this order
FramesOf(ps) == [i \in DOMAIN ps |-> Frame(BinlogRecord(i, ps[i]))]

RECURSIVE ByteLength(_)
\* the bytes the frames take: a prefix and the record, for each
ByteLength(fs) ==
    IF fs = <<>> THEN 0
    ELSE 1 + Head(fs).length + ByteLength(Tail(fs))

\* decompress(rawData): a push of a data chunk that throws rejects; a throw
\* on the end-of-stream marker is caught and logged; the chunks that ondata
\* collected are concatenated
decompress(blob) ==
    [ok |-> blob.corruptAt = 0,
     frames |-> blob.frames,
     len |-> ByteLength(blob.frames) - blob.cut]

Decoded_NoRegistryCheck(msg) ==
    IF ~msg.payload.present THEN <<>>
    ELSE <<[monotonicTime |-> msg.clockMonotonic,
            time |-> msg.unixTimestamp,
            type |-> "Tel",
            key |-> LastComponent(msg.payload.typeUrl),
            innerKey |-> ""]>>

Decoded_UnwrapsTwice(msg) ==
    LET key == IF msg.payload.present THEN LastComponent(msg.payload.typeUrl) ELSE ""
        innerKey == IF msg.inner.present THEN LastComponent(msg.inner.typeUrl) ELSE ""
        inner2Key == IF msg.inner2.present THEN LastComponent(msg.inner2.typeUrl) ELSE ""
    IN  IF key = "" \/ ~isInProtocol(key) THEN <<>>
        ELSE IF key = "GetTelemetryRep" /\ (innerKey = "" \/ ~isInProtocol(innerKey))
        THEN <<>>
        ELSE <<[monotonicTime |-> msg.clockMonotonic,
                time |-> msg.unixTimestamp,
                type |-> IF endsWith(key, "Ctrl") THEN "Ctrl"
                         ELSE IF endsWith(key, "Rep") THEN "Rep"
                         ELSE IF endsWith(key, "Req") THEN "Req"
                         ELSE "Tel",
                key |-> key,
                innerKey |-> IF key # "GetTelemetryRep" THEN ""
                             ELSE IF innerKey = "GetTelemetryRep" /\ inner2Key # ""
                             THEN inner2Key
                             ELSE innerKey]>>

\* parseMessages, from the decoded BinlogRecord to messages.push: nothing
\* is pushed for a record with no payload or an unknown key, nor for a
\* GetTelemetryRep whose own payload is missing or has an unknown key;
\* innerKey is the key whose decoder gave innerData, "" if there is none
Decoded(msg) ==
    LET key == IF msg.payload.present THEN LastComponent(msg.payload.typeUrl) ELSE ""
        innerKey == IF msg.inner.present THEN LastComponent(msg.inner.typeUrl) ELSE ""
        type == IF endsWith(key, "Ctrl") THEN "Ctrl"
                ELSE IF endsWith(key, "Rep") THEN "Rep"
                ELSE IF endsWith(key, "Req") THEN "Req"
                ELSE "Tel"
    IN  IF key = "" \/ ~isInProtocol(key) THEN <<>>
        ELSE IF key = "GetTelemetryRep" /\ (innerKey = "" \/ ~isInProtocol(innerKey))
        THEN <<>>
        ELSE <<[monotonicTime |-> msg.clockMonotonic,
                time |-> msg.unixTimestamp,
                type |-> type,
                key |-> key,
                innerKey |-> IF key = "GetTelemetryRep" THEN innerKey ELSE ""]>>

RECURSIVE ParseLoop(_, _, _, _)
\* parseMessages, the while loop: the reader is at pos, before the prefix
\* of the i-th frame
ParseLoop(decompressed, i, pos, messages) ==
    IF ~(pos < decompressed.len) THEN messages
    ELSE LET length == decompressed.frames[i].length
             start == pos + 1
             end == start + length
         IN  IF end > decompressed.len THEN messages
             ELSE ParseLoop(decompressed, i + 1, end,
                            messages \o Decoded(decompressed.frames[i].msg))

fixMessageTimes_DropsInner(messages) ==
    IF messages = <<>> THEN messages
    ELSE LET last == messages[Len(messages)]
         IN  [i \in DOMAIN messages |->
                [monotonicTime |-> messages[i].monotonicTime,
                 time |-> last.time - (last.monotonicTime - messages[i].monotonicTime),
                 type |-> messages[i].type,
                 key |-> messages[i].key,
                 innerKey |-> ""]]

fixMessageTimes_AnchorLargest(messages) ==
    IF messages = <<>> THEN messages
    ELSE LET last == messages[CHOOSE i \in DOMAIN messages :
                                \A j \in DOMAIN messages :
                                    messages[i].monotonicTime >= messages[j].monotonicTime]
         IN  [i \in DOMAIN messages |->
                [messages[i] EXCEPT
                   !.time = last.time - (last.monotonicTime - messages[i].monotonicTime)]]

\* fixMessageTimes(messages)
fixMessageTimes(messages) ==
    IF messages = <<>> THEN messages
    ELSE LET last == messages[Len(messages)]
             ssbLast == last.monotonicTime
             unixLast == last.time
         IN  [i \in DOMAIN messages |->
                [messages[i] EXCEPT !.time = unixLast - (ssbLast - messages[i].monotonicTime)]]

parseMessages_TruncatedUnfixed(decompressed, fixTimes) ==
    LET messages == ParseLoop(decompressed, 1, 0, <<>>)
    IN  IF fixTimes /\ decompressed.len = ByteLength(decompressed.frames)
        THEN fixMessageTimes(messages)
        ELSE messages

\* parseMessages(decompressed, fixTimes)
parseMessages(decompressed, fixTimes) ==
    LET messages == ParseLoop(decompressed, 1, 0, <<>>)
    IN  IF fixTimes THEN fixMessageTimes(messages) ELSE messages

\* parse(rawData, fixTimes)
parse(blob) ==
    LET decompressed == decompress(blob)
    IN  IF ~decompressed.ok
        THEN [status |-> "failed", messages |-> <<>>]
        ELSE [status |-> "ok", messages |-> parseMessages(decompressed, blob.fixTimes)]

\* the application awaits parse(rawData, fixTimes)
Parse ==
    /\ parsed.status = "none"
    /\ parsed' = parse(binlog)
    /\ UNCHANGED <<binlog, unfixed, fixed, queueVars, rpcVars, sessionVars,
                   telCalls, subVars>>

InitBinlog ==
    /\ InitQueue /\ InitRpc /\ InitSession /\ InitTelemetry /\ InitSub
    /\ \E n \in 0..MaxFrames :
         \E ps \in [1..n -> Payloads] :
           \E c \in 0..(IF n = 0 THEN 0 ELSE FramesOf(ps)[n].length) :
             \E k \in 0..n, e \in BOOLEAN, f \in BOOLEAN :
               binlog = [frames |-> FramesOf(ps), cut |-> c, corruptAt |-> k,
                         endOk |-> e, fixTimes |-> f]
    /\ parsed = [status |-> "none", messages |-> <<>>]
    /\ unfixed = <<>>
    /\ fixed = [done |-> FALSE, messages |-> <<>>]

NextBinlog == Parse

SpecBinlog == InitBinlog /\ [][NextBinlog]_vars

\* the messages fixMessageTimes is called with
MonotonicTimes == {100, 150, 200}

Times == {1000, 1040, 1110}

Messages ==
    { [monotonicTime |-> m, time |-> t, type |-> "Tel", key |-> "BatteryTel",
       innerKey |-> ""] : m \in MonotonicTimes, t \in Times }

\* the application calls fixMessageTimes(messages)
FixTimes ==
    /\ ~fixed.done
    /\ fixed' = [done |-> TRUE, messages |-> fixMessageTimes(unfixed)]
    /\ UNCHANGED <<binlog, parsed, unfixed, queueVars, rpcVars, sessionVars,
                   telCalls, subVars>>

InitFixTimes ==
    /\ InitQueue /\ InitRpc /\ InitSession /\ InitTelemetry /\ InitSub
    /\ binlog = [frames |-> <<>>, cut |-> 0, corruptAt |-> 0, endOk |-> TRUE,
                 fixTimes |-> TRUE]
    /\ parsed = [status |-> "none", messages |-> <<>>]
    /\ \E n \in 0..MaxRecords : unfixed \in [1..n -> Messages]
    /\ fixed = [done |-> FALSE, messages |-> <<>>]

NextFixTimes == FixTimes

SpecFixTimes == InitFixTimes /\ [][NextFixTimes]_vars

(***************************************************************************)
(* The client whose sendRequest does not go through a queue (client.ts)    *)
(*                                                                         *)
(* sendRequest registers its once("message") listener and calls rpc.send   *)
(* within the call.  The variables of the queue-based client are used,     *)
(* with no queue task: listeners holds the calls whose listener is         *)
(* registered, and the task of a frame is the call that sent it.  What     *)
(* the Req socket of jszmq does with a send while an earlier frame is not  *)
(* answered is not in this repository: the send is accepted, or it throws  *)
(* and the call is rejected with that error ("sendfailed"), its listener   *)
(* already registered.                                                     *)
(***************************************************************************)
DirectCall(key, outcome) ==
    [key |-> key, at |-> state, outcome |-> outcome, task |-> 0, by |-> 0]

\* sendRequest(key) of client.ts, up to the await
SendRequestDirect(key) ==
    /\ stack = <<>>
    /\ Len(calls) < MaxCalls
    /\ IF ~ValidRequest(key)
       THEN /\ calls' = Append(calls, DirectCall(key, "invalid"))
            /\ UNCHANGED <<timers, listeners, frames>>
       ELSE /\ timers' = Append(timers, Len(calls) + 1)
            /\ listeners' = Append(listeners, Len(calls) + 1)
            /\ \E accepted \in (IF Outstanding = {} THEN {TRUE} ELSE BOOLEAN) :
                 IF accepted
                 THEN /\ frames' = Append(frames, [task |-> Len(calls) + 1,
                                                   replied |-> FALSE])
                      /\ calls' = Append(calls, DirectCall(key, "pending"))
                 ELSE /\ calls' = Append(calls, DirectCall(key, "sendfailed"))
                      /\ UNCHANGED frames
    /\ UNCHANGED <<queueVars, pubSent, ctrlCalls, sessionVars, otherVars>>

\* the reply to the oldest unanswered frame arrives with the topic of key:
\* the socket emits "message", every once listener is called and removed,
\* and the race of its call settles
ReplyDirect(key) ==
    /\ Idle
    /\ attached.rpc
    /\ Outstanding # {}
    /\ LET f == CHOOSE g \in Outstanding : \A h \in Outstanding : g <= h
           replyKey == LastComponent(Topic(key))
           woken == Range(listeners)
       IN  /\ calls' = [c \in DOMAIN calls |->
                          IF c \in woken
                          THEN Race(calls[c], ReplyOutcome(replyKey), f)
                          ELSE calls[c]]
           /\ frames' = [frames EXCEPT ![f].replied = TRUE]
           /\ listeners' = <<>>
    /\ UNCHANGED <<queueVars, timers, pubSent, ctrlCalls, sessionVars, otherVars>>

NextDirect ==
    \/ \E key \in RequestKeys : SendRequestDirect(key)
    \/ \E key \in ReplyKeys : ReplyDirect(key)
    \/ TimerFire

SpecDirect == InitClient /\ [][NextDirect]_vars

(***************************************************************************)
(* Properties of AsyncQueue, under SpecQueue                               *)
(***************************************************************************)

\* C1: if a task rejects, the task submitted after it is still started, and
\* the promise enqueue returned for it settles with that task's own outcome,
\* not with the earlier task's error.
C1_RejectionIsolated ==
    \A i \in DOMAIN tasks :
        (i > 1 /\ tasks[i - 1].st = "rejected" /\ tasks[i].st \in Settled)
            => /\ tasks[i].started
               /\ tasks[i].st = "rejected" => tasks[i].err = i

\* C2: at most one task is running at any instant, a task is started only
\* after the run promise of the task submitted before it has settled, and
\* the tasks are started in the order of submission.
C2_OneAtATimeInOrder ==
    /\ Cardinality({ i \in DOMAIN tasks : tasks[i].st = "running" }) <= 1
    /\ \A i \in DOMAIN tasks :
           (i > 1 /\ tasks[i].started) => tasks[i - 1].st \in Settled
    /\ \A a, b \in DOMAIN startLog : a < b => startLog[a] < startLog[b]

C2_Witness ==
    /\ Len(startLog) >= 2
    /\ \E i \in DOMAIN tasks :
         /\ tasks[i].st = "running"
         /\ i < Len(tasks)
         /\ tasks[i + 1].st = "waiting"

(***************************************************************************)
(* Properties of the queue-based client, under Spec and LiveSpec           *)
(***************************************************************************)
TaskFrames(t) == { f \in DOMAIN frames : frames[f].task = t }

RepliedOutcomes == {"null", "value", "unexpected"}

\* C3: at most one request frame is outstanding on the rpc socket, and a
\* frame is sent only after the reply to the frame before it was received.
C3_OneOutstanding ==
    /\ Cardinality(Outstanding) <= 1
    /\ \A f \in DOMAIN frames : f < Len(frames) => frames[f].replied

C3_Witness ==
    /\ Len(frames) >= 2
    /\ \E c \in DOMAIN calls : calls[c].outcome = "timeout" /\ calls[c].task # 0
    /\ Outstanding # {}

\* C4: a reply settles no call but the one whose frame it answers, and a
\* call that has rejected with the timeout is not settled again by the
\* reply that arrives late.
C4_ReplyToOwnCaller ==
    /\ [](\A c \in DOMAIN calls :
            /\ calls[c].by # 0 <=> calls[c].outcome \in RepliedOutcomes
            /\ calls[c].by # 0 => calls[c].by \in TaskFrames(calls[c].task))
    /\ [][\A c \in DOMAIN calls :
            calls[c].outcome = "timeout" => calls'[c] = calls[c]]_vars

C4_Witness ==
    \E a, b \in DOMAIN calls :
        /\ a < b
        /\ calls[a].outcome = "timeout"
        /\ \E f \in TaskFrames(calls[a].task) : frames[f].replied
        /\ calls[b].outcome = "value"

\* C5: once a call has settled, by reply, error or timeout, no reply
\* listener of its request is registered on the rpc socket.
C5_ListenerRemoved ==
    \A c \in DOMAIN calls :
        calls[c].outcome # "pending" => calls[c].task \notin Range(listeners)

\* C6: every sendRequest call settles: once its timer has run the call is
\* settled, with the timeout error if nothing settled it before, wherever
\* its task stands in the queue.
C6_EventuallySettles ==
    /\ [](\A c \in DOMAIN calls :
            c \notin Range(timers) => calls[c].outcome # "pending")
    /\ \A c \in 1..MaxCalls :
           (c \in DOMAIN calls) ~> (c \in DOMAIN calls /\ calls[c].outcome # "pending")

C6_Witness ==
    \E c \in DOMAIN calls :
        /\ calls[c].outcome = "timeout"
        /\ calls[c].task > 1
        /\ ~tasks[calls[c].task].started

\* C7 as stated: of two calls, the one submitted first settles no later
\* than the other, whatever their outcomes.
C7_SubmissionOrder ==
    \A a, b \in DOMAIN calls :
        (a < b /\ calls[b].outcome # "pending") => calls[a].outcome # "pending"

\* C7 amended: of two calls with a valid request key, the one submitted
\* first settles no later than the other.
C7_ValidInOrder ==
    \A a, b \in DOMAIN calls :
        (/\ a < b
         /\ ValidRequest(calls[a].key)
         /\ ValidRequest(calls[b].key)
         /\ calls[b].outcome # "pending") => calls[a].outcome # "pending"

C7_Witness ==
    \E a, b \in DOMAIN calls :
        /\ a < b
        /\ calls[a].outcome = "timeout"
        /\ calls[b].outcome \in RepliedOutcomes

\* C8: sendRequest or sendControl called while the state is not
\* "connected" admits no task to the queue and sends no frame.
C8_NotConnectedNoop ==
    /\ \A c \in DOMAIN calls :
           calls[c].at # "connected"
               => calls[c].task = 0 /\ calls[c].outcome # "invalid"
    /\ \A p \in DOMAIN pubSent : pubSent[p].at = "connected"

(***************************************************************************)
(* Properties of the session state machine, under SpecSession              *)
(***************************************************************************)
AtEntry(op) == stack # <<>> /\ Top = [op |-> op, pc |-> "entry"]

\* C9: connect() called in the state "connected" or "connecting" changes
\* nothing: the state stays, no socket is attached, no event is emitted;
\* hence no second attach happens without a detach in between.
C9_ConnectIdempotent ==
    /\ [][(AtEntry("connect") /\ state \in {"connected", "connecting"})
            => /\ state' = state
               /\ attached' = attached
               /\ trace' = trace
               /\ stack' = Pop(stack)]_vars
    /\ [][(\E x \in {"sub", "rpc", "pub"} : attached'[x] /\ ~attached[x])
            => attached = Detached /\ state = "connecting"]_vars
    /\ [](\A i, j \in DOMAIN trace :
            (i < j /\ trace[i] = "attach" /\ trace[j] = "attach")
                => \E k \in (i + 1)..(j - 1) : trace[k] = "detach")

C9_Witness ==
    /\ Len(stack) >= 2
    /\ AtEntry("connect")
    /\ state \in {"connected", "connecting"}
    /\ "attach" \in Range(trace)

\* C10: disconnect() called in the state "disconnected" or "connecting"
\* changes nothing: the state stays, no socket is detached, no event is
\* emitted; called in the state "connected" it detaches the three sockets
\* and moves to "disconnected", and nothing else detaches a socket.
C10_DisconnectGuarded ==
    /\ [][(AtEntry("disconnect") /\ state \in {"disconnected", "connecting"})
            => /\ state' = state
               /\ attached' = attached
               /\ trace' = trace
               /\ stack' = Pop(stack)]_vars
    /\ [][(AtEntry("disconnect") /\ state = "connected")
            => attached' = Detached /\ state' = "disconnected"]_vars
    /\ [][(\E x \in {"sub", "rpc", "pub"} : attached[x] /\ ~attached'[x])
            => AtEntry("disconnect") /\ state = "connected"]_vars

C10_Witness ==
    /\ Len(stack) >= 2
    /\ stack[Len(stack) - 1].pc = "emit_connecting"
    /\ AtEntry("disconnect")
    /\ state = "connecting"


\* C11: every change of the state emits exactly one event, named after the
\* new state, in the step that sets the state and with the method still
\* inside emit (it has not returned); no event is emitted without a change
\* of state; "connected" follows "connecting" and the attaching of the
\* sockets, and "disconnected" follows the detaching of the sockets.
C11_TransitionEmits ==
    /\ [][state' # state
            => /\ \E pre \in {<<>>, <<"attach">>, <<"detach">>} :
                     trace' = Noted(pre \o <<state'>>)
               /\ stack' = SetTopPc(stack, "emit_" \o state')]_vars
    /\ [][trace' # trace => state' # state]_vars
    /\ [][(state' = "disconnected" /\ state # "disconnected")
            => attached' = Detached]_vars
    /\ [](\A i \in DOMAIN trace :
            /\ (trace[i] = "connected" /\ i > 2)
                  => trace[i - 1] = "attach" /\ trace[i - 2] = "connecting"
            /\ (trace[i] = "disconnected" /\ i > 1) => trace[i - 1] = "detach")
    /\ [](trace # <<>> => trace[Len(trace)] = state)

C11_Witness ==
    /\ stack = <<>>
    /\ trace = <<"connecting", "attach", "connected", "detach", "disconnected">>


(***************************************************************************)
(* Properties of sendControl and of the key checks, under Spec             *)
(***************************************************************************)
BadRequestKey(key) == key \notin Protocol \/ SuffixOf(key) # "Req"

BadControlKey(key) == key \notin Protocol \/ SuffixOf(key) # "Ctrl"

\* C12: a sendControl call with a control key hands its frame to the pub
\* socket in the step of the call, whatever request is outstanding or
\* queued, and leaves the queue, the calls, the outstanding frames, the
\* reply listeners and the timers as they were.
C12_ControlBypassesQueue ==
    /\ [][ctrlCalls' # ctrlCalls
            => UNCHANGED <<tasks, startLog, calls, listeners, frames, timers>>]_vars
    /\ [][(ctrlCalls' # ctrlCalls /\ ~BadControlKey(ctrlCalls'[Len(ctrlCalls')].key))
            => /\ Len(pubSent') = Len(pubSent) + 1
               /\ pubSent'[Len(pubSent')].key = ctrlCalls'[Len(ctrlCalls')].key]_vars
    /\ [](\A i \in DOMAIN ctrlCalls :
            ~BadControlKey(ctrlCalls[i].key) => ctrlCalls[i].outcome = "sent")

C12_Witness ==
    /\ \E i \in DOMAIN ctrlCalls :
          /\ ctrlCalls[i].outcome = "sent"
          /\ ctrlCalls[i].busy
    /\ pubSent # <<>>
    /\ Outstanding # {}

\* C13: a sendRequest call whose key is not a registry key ending in "Req",
\* and a sendControl call whose key is not a registry key ending in "Ctrl",
\* fail to the caller and do nothing else: no frame, no queue task, no
\* listener, no timer.
C13_InvalidKeyNoEffect ==
    /\ [][(Len(calls') > Len(calls) /\ BadRequestKey(calls'[Len(calls')].key))
            => /\ calls'[Len(calls')].outcome = "invalid"
               /\ calls'[Len(calls')].task = 0
               /\ SubSeq(calls', 1, Len(calls)) = calls
               /\ UNCHANGED <<tasks, startLog, listeners, frames, timers,
                              pubSent, ctrlCalls>>]_vars
    /\ [][(Len(ctrlCalls') > Len(ctrlCalls)
              /\ BadControlKey(ctrlCalls'[Len(ctrlCalls')].key))
            => /\ ctrlCalls'[Len(ctrlCalls')].outcome = "invalid"
               /\ UNCHANGED <<tasks, startLog, calls, listeners, frames, timers,
                              pubSent>>]_vars
    /\ [](\A c \in DOMAIN calls :
            BadRequestKey(calls[c].key)
                => /\ calls[c].outcome = "invalid"
                   /\ c \notin Range(timers)
                   /\ calls[c].task = 0)
    /\ [](\A p \in DOMAIN pubSent : ~BadControlKey(pubSent[p].key))

C13_Witness ==
    /\ \E a, b \in DOMAIN calls :
          /\ a < b
          /\ calls[a].key = "NoSuchReq"
          /\ calls[a].outcome = "invalid"
          /\ calls[b].outcome = "value"
    /\ \E i \in DOMAIN ctrlCalls :
          ctrlCalls[i].key = "GetBatteryReq" /\ ctrlCalls[i].outcome = "invalid"


\* C14: a call settled by a reply ends as the key of the reply says: null
\* for "Empty", the decoded value for a registry key ending in "Rep", the
\* unexpected-reply error for any other key; in each case the task of the
\* call has settled, so that the task queued behind it can be started.
C14_OutcomeByReplyKey ==
    \A c \in DOMAIN calls :
        calls[c].by # 0
            => LET t == calls[c].task
                   k == tasks[t].val
                   isRep == k \in Protocol /\ SuffixOf(k) = "Rep"
               IN  /\ k = "Empty" => calls[c].outcome = "null"
                   /\ isRep => calls[c].outcome = "value"
                   /\ (k # "Empty" /\ ~isRep) => calls[c].outcome = "unexpected"
                   /\ tasks[t].st = "fulfilled"
                   /\ (t < Len(tasks) /\ tasks[t + 1].st = "waiting")
                         => ThenReady(tasks, t + 1)

C14_Witness ==
    /\ Len(frames) = 3
    /\ \E a, b, c \in DOMAIN calls :
          /\ calls[a].outcome = "unexpected" /\ calls[a].by # 0
          /\ calls[b].outcome = "null" /\ calls[b].by # 0
          /\ calls[c].outcome = "value" /\ calls[c].by # 0


(***************************************************************************)
(* Properties of getTelemetry, under SpecTelemetry                         *)
(***************************************************************************)

\* C15: getTelemetry(K) returns a value only when the typeUrl of the reply
\* envelope is a registry key ending in "Tel" and is K itself; otherwise
\* the call fails.
C15_OnlyRequestedType ==
    \A i \in DOMAIN telCalls :
        telCalls[i].result.status = "value"
            => /\ telCalls[i].response.payload.present
               /\ LET url == telCalls[i].response.payload.typeUrl
                      k == url[Len(url)]
                  IN  /\ k \in Protocol
                      /\ SuffixOf(k) = "Tel"
                      /\ k = telCalls[i].type


(***************************************************************************)
(* Properties of the telemetry subscriber, under SpecSub                   *)
(***************************************************************************)

\* C16: a message received on sub whose key is a registry key ending in
\* "Tel" invokes the observers registered for that key, each once, in the
\* order of registration, and no other observer; a message with any other
\* key invokes no observer; the messages are dispatched in the order of
\* arrival, and the dispatch neither reads nor changes the requests.
C16_DispatchByKey ==
    /\ [][Len(subMsgs') > Len(subMsgs)
            => LET m == Len(subMsgs')
                   key == subMsgs'[m]
                   new == SubSeq(invoked', Len(invoked) + 1, Len(invoked'))
                   want == IF key \in Protocol /\ SuffixOf(key) = "Tel"
                           THEN { i \in DOMAIN observers : observers[i] = key }
                           ELSE {}
               IN  /\ SubSeq(invoked', 1, Len(invoked)) = invoked
                   /\ Len(new) = Cardinality(want)
                   /\ { new[j].obs : j \in DOMAIN new } = want
                   /\ \A j \in DOMAIN new : new[j].msg = m
                   /\ \A a, b \in DOMAIN new : a < b => new[a].obs < new[b].obs
                   /\ UNCHANGED <<queueVars, rpcVars>>]_vars
    /\ [][invoked' # invoked => Len(subMsgs') > Len(subMsgs)]_vars
    /\ [](\A a, b \in DOMAIN invoked : a < b => invoked[a].msg <= invoked[b].msg)

C16_Witness ==
    /\ observers = <<"BatteryTel", "DepthTel", "BatteryTel">>
    /\ subMsgs = <<"BatteryTel", "DepthTel">>
    /\ invoked = <<[msg |-> 1, obs |-> 1], [msg |-> 1, obs |-> 3], [msg |-> 2, obs |-> 2]>>
    /\ Outstanding # {}
    /\ \E t \in DOMAIN tasks : tasks[t].st = "waiting"


(***************************************************************************)
(* Properties of the binlog decoder, under SpecFixTimes and SpecBinlog     *)
(***************************************************************************)

\* C17: fixMessageTimes sets the time of every message to the time of
\* the last message of the sequence less the monotonic time that separates
\* the two, whichever message has the largest monotonic time; monotonic
\* times 100, 150, 200 with times 1000, 1040, 1110 give 1010, 1060, 1110.
C17_AnchoredOnLast ==
    fixed.done
        => /\ Len(fixed.messages) = Len(unfixed)
           /\ \A i \in DOMAIN unfixed :
                 LET anchor == unfixed[Len(unfixed)]
                 IN  /\ fixed.messages[i].time
                           = anchor.time - (anchor.monotonicTime - unfixed[i].monotonicTime)
                     /\ fixed.messages[i].monotonicTime = unfixed[i].monotonicTime
           /\ ([i \in DOMAIN unfixed |-> <<unfixed[i].monotonicTime, unfixed[i].time>>]
                  = <<(<<100, 1000>>), (<<150, 1040>>), (<<200, 1110>>)>>)
                 => [i \in DOMAIN unfixed |-> fixed.messages[i].time] = <<1010, 1060, 1110>>

C17_Witness ==
    /\ fixed.done
    /\ [i \in DOMAIN unfixed |-> <<unfixed[i].monotonicTime, unfixed[i].time>>]
         = <<(<<100, 1000>>), (<<150, 1040>>), (<<200, 1110>>)>>
    /\ [i \in DOMAIN unfixed |-> fixed.messages[i].time] = <<1010, 1060, 1110>>

\* the blob without its last frame, and with nothing cut
WithoutTail(blob) ==
    [blob EXCEPT !.frames = SubSeq(blob.frames, 1, Len(blob.frames) - 1), !.cut = 0]

\* C18: when the last frame declares more bytes than remain, parse does not
\* fail: it returns what parseMessages returns for the stream without that
\* frame, the times fixed as asked.
C18_TruncatedTail ==
    (parsed.status # "none" /\ binlog.corruptAt = 0 /\ binlog.cut > 0)
        => /\ parsed.status = "ok"
           /\ parsed.messages
                 = parseMessages(decompress(WithoutTail(binlog)), binlog.fixTimes)
           /\ Len(parsed.messages) < Len(binlog.frames)

C18_Witness ==
    /\ parsed.status = "ok"
    /\ binlog.cut > 0
    /\ binlog.fixTimes
    /\ Len(binlog.frames) = 3
    /\ Len(parsed.messages) = 2
    /\ parsed.messages[1].time # binlog.frames[1].msg.unixTimestamp

\* the frames that are whole in the decompressed data
Complete == 1..(IF binlog.cut > 0 THEN Len(binlog.frames) - 1 ELSE Len(binlog.frames))

OuterResolves(i) ==
    /\ binlog.frames[i].msg.payload.present
    /\ binlog.frames[i].msg.payload.typeUrl[3] \in Protocol

InnerResolves(i) ==
    /\ binlog.frames[i].msg.inner.present
    /\ binlog.frames[i].msg.inner.typeUrl[3] \in Protocol

\* C19 as stated: parse returns as many records as there are whole frames
\* whose envelope typeUrl is a registry key.
C19_CountResolvable ==
    parsed.status = "ok"
        => Len(parsed.messages) = Cardinality({ i \in Complete : OuterResolves(i) })

\* C19 amended: a whole frame gives no record if its payload is missing or
\* its typeUrl is no registry key, nor if it is a GetTelemetryRep whose
\* inner envelope is missing or has no registry key; every other whole
\* frame gives one record, in stream order, whatever was skipped before it.
C19_CountResolved ==
    parsed.status = "ok"
        => LET kept == SelectSeq([i \in Complete |-> i],
                                 LAMBDA i : /\ OuterResolves(i)
                                            /\ binlog.frames[i].msg.payload.typeUrl[3]
                                                  = "GetTelemetryRep" => InnerResolves(i))
           IN  /\ Len(parsed.messages) = Len(kept)
               /\ \A j \in DOMAIN kept :
                     /\ parsed.messages[j].monotonicTime
                           = binlog.frames[kept[j]].msg.clockMonotonic
                     /\ parsed.messages[j].key
                           = binlog.frames[kept[j]].msg.payload.typeUrl[3]

C19_Witness ==
    /\ parsed.status = "ok"
    /\ binlog.cut = 0
    /\ Len(binlog.frames) = 3
    /\ binlog.frames[1].msg.payload = Envelope("NoSuchTel")
    /\ binlog.frames[2].msg.payload = Envelope("GetTelemetryRep")
    /\ binlog.frames[2].msg.inner = Envelope("NoSuchTel")
    /\ binlog.frames[3].msg.payload = Envelope("BatteryTel")
    /\ Len(parsed.messages) = 1
    /\ parsed.messages[1].key = "BatteryTel"

\* C20: if gunzip throws, on a data chunk or on the end-of-stream marker,
\* parse fails and returns no record.
C20_DecompressFailureFatal ==
    (parsed.status # "none" /\ (binlog.corruptAt # 0 \/ ~binlog.endOk))
        => parsed.status = "failed" /\ parsed.messages = <<>>


\* the frame a returned message was decoded from: the monotonic clock of
\* every frame of a recording is different
FrameOf(m) ==
    CHOOSE i \in DOMAIN binlog.frames :
        binlog.frames[i].msg.clockMonotonic = m.monotonicTime

\* C21: a returned record has innerData only if its key is
\* "GetTelemetryRep", and then innerData is the value of the inner envelope
\* decoded with the decoder of the inner key; the payload of that decoded
\* value is not decoded in its turn.
C21_OneLevelOfNesting ==
    parsed.status = "ok"
        => \A j \in DOMAIN parsed.messages :
             LET m == parsed.messages[j]
                 msg == binlog.frames[FrameOf(m)].msg
             IN  IF m.key = "GetTelemetryRep"
                 THEN /\ msg.inner.present
                      /\ m.innerKey = msg.inner.typeUrl[Len(msg.inner.typeUrl)]
                 ELSE m.innerKey = ""

C21_Witness ==
    /\ parsed.status = "ok"
    /\ \E j \in DOMAIN parsed.messages :
          /\ parsed.messages[j].key = "GetTelemetryRep"
          /\ parsed.messages[j].innerKey = "GetTelemetryRep"
          /\ binlog.frames[FrameOf(parsed.messages[j])].msg.inner2 = Envelope("BatteryTel")
    /\ \E j \in DOMAIN parsed.messages :
          parsed.messages[j].key = "BatteryTel" /\ parsed.messages[j].innerKey = ""


C22_DirectExclusive ==
    /\ \A c \in DOMAIN calls : calls[c].by # 0 => frames[calls[c].by].task = c
    /\ \A a, b \in DOMAIN calls :
          (a # b /\ calls[a].by # 0) => calls[a].by # calls[b].by


(***************************************************************************)
(* Timeouts of queued requests, under Spec and LiveSpec                    *)
(***************************************************************************)

\* C24: the timeout of a call runs from the call, not from the send: the
\* timer of a call whose task still waits in the queue rejects it with the
\* timeout and sends nothing; the task stays in the queue, its frame is
\* sent when the queue reaches it, and the reply to that frame changes no
\* call.
C24_TimeoutFromCall ==
    /\ [][\A c \in DOMAIN calls :
            (/\ timers # <<>> /\ Head(timers) = c /\ timers' = Tail(timers)
             /\ calls[c].outcome = "pending" /\ ~tasks[calls[c].task].started)
            => /\ calls'[c].outcome = "timeout"
               /\ calls'[c].by = 0
               /\ frames' = frames
               /\ tasks' = tasks]_vars
    /\ [][\A t \in DOMAIN tasks :
            (tasks[t].st = "waiting" /\ tasks'[t].st # "waiting")
            => frames' = Append(frames, [task |-> t, replied |-> FALSE])]_vars
    /\ [][\A f \in DOMAIN frames :
            (/\ ~frames[f].replied /\ frames'[f].replied
             /\ calls[CallOfTask(frames[f].task)].outcome = "timeout")
            => calls' = calls]_vars
    /\ \A c \in 1..MaxCalls :
          (/\ c \in DOMAIN calls
           /\ calls[c].outcome = "timeout"
           /\ ThenReady(tasks, calls[c].task))
          ~> (c \in DOMAIN calls /\ TaskFrames(calls[c].task) # {})

\* a call has timed out while its task waited behind an outstanding frame,
\* and the reply to that frame has now let the queue reach the task
C24_Witness ==
    \E c \in DOMAIN calls :
        /\ calls[c].outcome = "timeout"
        /\ calls[c].task > 1
        /\ ThenReady(tasks, calls[c].task)
        /\ TaskFrames(calls[c].task) = {}
        /\ \E f \in TaskFrames(calls[c].task - 1) : frames[f].replied


\* the frames sent for the tasks before the task of call c are all answered
EarlierAnswered(c) ==
    \A f \in DOMAIN frames : frames[f].task < calls[c].task => frames[f].replied

\* C25: while the reply to a sent frame has not arrived, the task of no
\* call made after it is started, so none of their frames is sent, and
\* such a call can only end with the timeout; it does end with it unless
\* the reply arrives.
C25_NoReplyBlocksQueue ==
    /\ [](\A c \in DOMAIN calls :
            (calls[c].task # 0 /\ ~EarlierAnswered(c))
            => /\ ~tasks[calls[c].task].started
               /\ TaskFrames(calls[c].task) = {}
               /\ calls[c].outcome \in {"pending", "timeout"})
    /\ \A c \in 1..MaxCalls :
          (c \in DOMAIN calls /\ calls[c].task # 0 /\ ~EarlierAnswered(c))
          ~> (c \in DOMAIN calls /\ (calls[c].outcome = "timeout" \/ EarlierAnswered(c)))

\* the first frame is not answered, and the two calls made after it have
\* timed out with their tasks still waiting
C25_Witness ==
    /\ Len(frames) = 1
    /\ Outstanding = {1}
    /\ Len(tasks) = 3
    /\ \A c \in DOMAIN calls :
          calls[c].task > 1 => /\ calls[c].outcome = "timeout"
                               /\ tasks[calls[c].task].st = "waiting"


(***************************************************************************)
(* The session outside connect() and disconnect(), under SpecSession       *)
(***************************************************************************)

\* C26: when no connect() or disconnect() call is in progress, the state
\* is "connected" or "disconnected", and the three sockets are connected
\* exactly when the state is "connected".
C26_SettledWhenIdle ==
    stack = <<>> =>
        /\ state \in {"connected", "disconnected"}
        /\ state = "connected" => attached = Attached
        /\ state = "disconnected" => attached = Detached

====
